---- MODULE Spec2Model ----
(***************************************************************************)
(* sui-indexer, crates/sui-indexer/src/lib.rs: the connection pool with    *)
(* retrying acquisition (new_pg_connection_pool, get_pg_pool_connection)   *)
(* and the assembly of the JSON-RPC server (build_json_rpc_server).        *)
(*                                                                         *)
(* get_pg_pool_connection is retry(ExponentialBackoff::default(), closure) *)
(* around pool.get().  What the two library calls do:                      *)
(*   - pool.get() (r2d2) hands out a connection while fewer than max_size  *)
(*     are checked out; otherwise it waits for one to come back, for at    *)
(*     most the pool's connection timeout, and then returns an error;      *)
(*   - retry (backoff) resets the policy, runs the closure, and on a       *)
(*     transient error asks next_backoff: None when the elapsed time is    *)
(*     past max_elapsed_time or when elapsed time plus the drawn interval  *)
(*     is; otherwise it sleeps the drawn interval and runs the closure     *)
(*     again.  The interval is drawn around current_interval, which is     *)
(*     then multiplied, up to max_interval.                                *)
(*                                                                         *)
(* Time is discrete.  A borrower inside get_pg_pool_connection is either   *)
(* blocked inside pool.get() or asleep between two attempts.  Tick         *)
(* advances every running timer by one unit; a timer that has run out is   *)
(* served before time moves on.                                            *)
(*                                                                         *)
(* PoolSpec: borrowers of one pool.  Spec: the startup, the pool built,    *)
(* the server assembled, and the requests of a serving server borrowing    *)
(* from the pool.  RetrySpec: two callers of a pool of one connection that *)
(* call again and again, under a budget long enough for several waits.     *)
(* MixedSpec: RetrySpec beside a call of new_rpc_client or                 *)
(* establish_connection.  ClientSpec: the calls of those two alone.        *)
(***************************************************************************)
EXTENDS Integers, FiniteSets, Sequences, TLC

\* ------------------------------------------------------------------ bounds
NumBorrowers == 3
MaxPoolSize == 2
ConnectionTimeout == 1
MaxBudget == 4
NumRuns == 2
NumMethods == 2
MaxLateCalls == 1
NumCallers == 3
NumErrors == 2
MaxRequests == 1
MaxCalls == 2

\* Pool::builder() without max_size: "default connection pool max size is 10".
DefaultMaxSize == 10

\* SocketAddr::new(IpAddr::V4(Ipv4Addr::new(127, 0, 0, 1)), 3030): the port.
DefaultSocketAddr == 3030

Borrowers == 1..NumBorrowers
Runs == 1..NumRuns
Methods == 1..NumMethods
Callers == 1..NumCallers
Errors == 1..NumErrors

Min(a, b) == IF a <= b THEN a ELSE b

\* The retry policies: initial_interval, multiplier (mult_num / mult_den),
\* max_interval and max_elapsed_time of an ExponentialBackoff, in model time
\* units.  ExponentialBackoff::default() multiplies by 1.5 and randomizes by 0.5.
Policies ==
    [initial_interval : {2},
     mult_num : {3},
     mult_den : {2},
     max_interval : {3},
     max_elapsed_time : (MaxBudget - 1)..MaxBudget]

\* The same policies with a budget that lets a retry run sleep more than once.
LongPolicies ==
    [initial_interval : {2},
     mult_num : {3},
     mult_den : {2},
     max_interval : {3},
     max_elapsed_time : (2 * MaxBudget - 1)..(2 * MaxBudget)]

VARIABLES
    \* the pool handed to get_pg_pool_connection
    maxSize,        \* the pool's max_size
    connTimeout,    \* the pool's connection_timeout
    lent,           \* connections checked out of the pool
    policy,         \* the ExponentialBackoff of every retry run
    \* one borrowing operation per borrower
    pc,             \* "idle", "blocked", "sleeping", "holding", "done", "failed"
    held,           \* the borrower owns a PgPoolConnection
    current_interval,
    elapsed,        \* clock.now() - start_time of the borrower's retry run
    timer,          \* time left of the pool.get() wait or of the sleep
    attempts,       \* calls of pool.get() made by the retry run
    lastErr,        \* the attempt whose error the retry run saw last
    result,         \* what get_pg_pool_connection returned
    \* observers
    sleeps,         \* waits slept by the retry run
    waited,         \* their sum
    rejected,       \* the wait next_backoff drew and refused when it gave up
    gaveUpAt,       \* elapsed when the retry run gave up
    acquired,       \* connections the borrower was handed
    released,       \* connections the borrower gave back
    opResult,       \* how the borrowing operation ended
    relSeen,        \* a release by another borrower the retry run saw
    justGaveUp,     \* no time has passed since the retry run gave up
    lastWait,       \* the wait the retry run slept last
    calls,          \* calls of get_pg_pool_connection by the borrower
    queries,        \* queries the borrowing operation ran
    servedBy,       \* the run whose server dispatched the borrower's request, or 0
    \* startup
    poolState,      \* "none", "built", "initError": new_pg_connection_pool
    buildCalls,     \* calls of Pool::builder().build(manager)
    builtin,        \* method names a fresh builder's dispatch table holds
    moduleMethods,  \* method names of CheckpointApiImpl
    asmPc,          \* where each run of build_json_rpc_server stands
    state,          \* "Uninitialized", "Built", "Serving", "Failed"
    table,          \* the builder's (then the server's) dispatch table
    asmResult,      \* what build_json_rpc_server returned
    errStep,        \* the step whose error it returned
    newCalls,       \* calls of JsonRpcServerBuilder::new
    regCalls,       \* calls of register_module
    startCalls,     \* calls of start
    portOwner,      \* the run whose server is bound to 127.0.0.1:3030, or 0
    lateRejected,   \* register_module calls made after start, all rejected
    modulePool,     \* the pool CheckpointApiImpl::new was given: "none" before
    \* callers of new_rpc_client and establish_connection
    cliPc,          \* "idle", "rpc", "establish", "returned", "aborted"
    cliCalls,       \* construction attempts the call made
    cliCause,       \* the error the last attempt met, or 0
    cliResult       \* what the call returned, or the panic

poolVars == <<maxSize, connTimeout, lent, policy>>
retryVars == <<current_interval, elapsed, timer, attempts, lastErr, result>>
obsVars == <<sleeps, waited, rejected, gaveUpAt, acquired, released, opResult, relSeen,
            justGaveUp>>
callVars == <<lastWait, calls, queries, servedBy>>
borrowerVars == <<pc, held, retryVars, obsVars, callVars>>
startVars == <<poolState, buildCalls, builtin, moduleMethods>>
asmVars == <<asmPc, state, table, asmResult, errStep, newCalls, regCalls, startCalls,
             portOwner, lateRejected, modulePool>>
clientVars == <<cliPc, cliCalls, cliCause, cliResult>>
vars == <<poolVars, borrowerVars, startVars, asmVars, clientVars>>

\* ------------------------------------------------------ ExponentialBackoff
\* get_random_value_from_interval: the interval drawn around current_interval
\* with randomization_factor 0.5.
RandomizedInterval(cur) == (cur - (cur \div 2))..(cur + (cur \div 2))

\* increment_current_interval: multiply, capped by max_interval.
IncrementUncapped(cur) == (cur * policy.mult_num) \div policy.mult_den

IncrementCurrentInterval(cur) ==
    Min((cur * policy.mult_num) \div policy.mult_den, policy.max_interval)

NextBackoffElapsedOnly(el, w) == el > policy.max_elapsed_time

NextBackoffOffByOne(el, w) == el + w >= policy.max_elapsed_time

NextBackoffUnbounded(el, w) == FALSE

\* next_backoff: None once the elapsed time is past max_elapsed_time, or when
\* the drawn interval would end past it; otherwise the drawn interval.
NextBackoffGivesUp(el, w) ==
    \/ el > policy.max_elapsed_time
    \/ el + w > policy.max_elapsed_time

\* ------------------------------------------------------------------- Init
InitBorrowers ==
    /\ pc = [b \in Borrowers |-> "idle"]
    /\ held = [b \in Borrowers |-> FALSE]
    /\ current_interval = [b \in Borrowers |-> 0]
    /\ elapsed = [b \in Borrowers |-> 0]
    /\ timer = [b \in Borrowers |-> 0]
    /\ attempts = [b \in Borrowers |-> 0]
    /\ lastErr = [b \in Borrowers |-> 0]
    /\ result = [b \in Borrowers |-> "none"]
    /\ sleeps = [b \in Borrowers |-> 0]
    /\ waited = [b \in Borrowers |-> 0]
    /\ rejected = [b \in Borrowers |-> 0]
    /\ gaveUpAt = [b \in Borrowers |-> 0]
    /\ acquired = [b \in Borrowers |-> 0]
    /\ released = [b \in Borrowers |-> 0]
    /\ opResult = [b \in Borrowers |-> "none"]
    /\ relSeen = [b \in Borrowers |-> "none"]
    /\ justGaveUp = [b \in Borrowers |-> FALSE]
    /\ lastWait = [b \in Borrowers |-> 0]
    /\ calls = [b \in Borrowers |-> 0]
    /\ queries = [b \in Borrowers |-> 0]
    /\ servedBy = [b \in Borrowers |-> 0]

\* No run of build_json_rpc_server has begun.
InitRuns ==
    /\ asmPc = [r \in Runs |-> "idle"]
    /\ state = [r \in Runs |-> "Uninitialized"]
    /\ table = [r \in Runs |-> {}]
    /\ asmResult = [r \in Runs |-> "none"]
    /\ errStep = [r \in Runs |-> "none"]
    /\ newCalls = [r \in Runs |-> 0]
    /\ regCalls = [r \in Runs |-> 0]
    /\ startCalls = [r \in Runs |-> 0]
    /\ portOwner = 0
    /\ lateRejected = [r \in Runs |-> 0]
    /\ modulePool = [r \in Runs |-> "none"]

\* A call's outcome: Ok with the value, an IndexerError with its message (the
\* text and the error formatted into it), or a panic with its message.
NoResult == [kind |-> "none", text |-> "none", detail |-> 0]

\* No call of new_rpc_client or establish_connection has begun.
InitCallers ==
    /\ cliPc = [c \in Callers |-> "idle"]
    /\ cliCalls = [c \in Callers |-> 0]
    /\ cliCause = [c \in Callers |-> 0]
    /\ cliResult = [c \in Callers |-> NoResult]

\* get_pg_pool_connection takes any pool: max size, connection timeout.
PoolInit ==
    /\ maxSize \in 1..MaxPoolSize
    /\ connTimeout = ConnectionTimeout
    /\ lent = 0
    /\ policy \in Policies
    /\ InitBorrowers
    /\ poolState = "built"
    /\ buildCalls = 1
    /\ builtin = {}
    /\ moduleMethods = Methods
    /\ InitRuns
    /\ InitCallers

\* A pool of one connection and a policy with a long budget.
RetryInit ==
    /\ maxSize = 1
    /\ connTimeout = ConnectionTimeout
    /\ lent = 0
    /\ policy \in LongPolicies
    /\ InitBorrowers
    /\ poolState = "built"
    /\ buildCalls = 1
    /\ builtin = {}
    /\ moduleMethods = Methods
    /\ InitRuns
    /\ InitCallers

\* The process before new_pg_connection_pool: no pool, no server.
Init ==
    /\ maxSize = 0
    /\ connTimeout = 0
    /\ lent = 0
    /\ policy \in Policies
    /\ InitBorrowers
    /\ poolState = "none"
    /\ buildCalls = 0
    /\ builtin \in SUBSET Methods
    /\ moduleMethods \in (SUBSET Methods) \ {{}}
    /\ InitRuns
    /\ InitCallers

\* ------------------------------------------------- get_pg_pool_connection
ResetIntervalKeeps(cur) == IF cur = 0 THEN policy.initial_interval ELSE cur

\* ExponentialBackoff::default() is a new value in every call, and retry()
\* resets it: whatever an interval was, it is the initial interval.
ResetInterval(cur) == policy.initial_interval

\* The call: retry() resets the backoff (current_interval = initial_interval,
\* start_time = now) and runs the closure, whose pool.get() waits for a
\* connection for at most the connection timeout.
Acquire(b) ==
    /\ pc[b] = "idle"
    /\ pc' = [pc EXCEPT ![b] = "blocked"]
    /\ current_interval' = [current_interval EXCEPT ![b] = ResetInterval(@)]
    /\ elapsed' = [elapsed EXCEPT ![b] = 0]
    /\ timer' = [timer EXCEPT ![b] = connTimeout]
    /\ attempts' = [attempts EXCEPT ![b] = 1]
    /\ calls' = [calls EXCEPT ![b] = @ + 1]
    /\ UNCHANGED <<poolVars, held, lastErr, result, obsVars, lastWait, queries, servedBy>>
    /\ UNCHANGED <<startVars, asmVars, clientVars>>

PoolHasConnectionOffByOne == lent <= maxSize

PoolHasConnectionUnreserved ==
    lent + Cardinality({b \in Borrowers : pc[b] = "sleeping"}) < maxSize

\* pool.get() has a connection to hand out.
PoolHasConnection == lent < maxSize

PoolGetOkLeaks(b) ==
    /\ pc[b] = "blocked"
    /\ PoolHasConnection
    /\ lent' = lent + 1
    /\ pc' = [pc EXCEPT ![b] = "failed"]
    /\ result' = [result EXCEPT ![b] = "PgPoolConnectionError"]
    /\ timer' = [timer EXCEPT ![b] = 0]
    /\ UNCHANGED <<maxSize, connTimeout, policy, held, current_interval, elapsed,
                   attempts, lastErr, obsVars, callVars, startVars, asmVars, clientVars>>

\* pool.get() returns a connection: the closure returns Ok(pool_conn) and
\* retry returns it, its ExponentialBackoff dropped.
PoolGetOk(b) ==
    /\ pc[b] = "blocked"
    /\ PoolHasConnection
    /\ lent' = lent + 1
    /\ held' = [held EXCEPT ![b] = TRUE]
    /\ acquired' = [acquired EXCEPT ![b] = @ + 1]
    /\ pc' = [pc EXCEPT ![b] = "holding"]
    /\ result' = [result EXCEPT ![b] = "Ok"]
    /\ timer' = [timer EXCEPT ![b] = 0]
    /\ current_interval' = [current_interval EXCEPT ![b] = 0]
    /\ elapsed' = [elapsed EXCEPT ![b] = 0]
    /\ lastErr' = [lastErr EXCEPT ![b] = 0]
    /\ sleeps' = [sleeps EXCEPT ![b] = 0]
    /\ waited' = [waited EXCEPT ![b] = 0]
    /\ lastWait' = [lastWait EXCEPT ![b] = 0]
    /\ UNCHANGED <<maxSize, connTimeout, policy, attempts, rejected, gaveUpAt, released,
                   opResult, relSeen, justGaveUp, calls, queries, servedBy>>
    /\ UNCHANGED <<startVars, asmVars, clientVars>>

\* retry gives up: map_err wraps the error of the last attempt.
GiveUp(b, w) ==
    /\ pc' = [pc EXCEPT ![b] = "failed"]
    /\ result' = [result EXCEPT ![b] = "PgPoolConnectionError"]
    /\ rejected' = [rejected EXCEPT ![b] = w]
    /\ gaveUpAt' = [gaveUpAt EXCEPT ![b] = elapsed[b]]
    /\ opResult' = [opResult EXCEPT ![b] = "PgPoolConnectionError"]
    /\ justGaveUp' = [justGaveUp EXCEPT ![b] = TRUE]
    /\ lastWait' = [lastWait EXCEPT ![b] = 0]
    /\ UNCHANGED <<timer, sleeps, waited>>

\* retry sleeps the interval and will run the closure again.
Backoff(b, w) ==
    /\ pc' = [pc EXCEPT ![b] = "sleeping"]
    /\ timer' = [timer EXCEPT ![b] = w]
    /\ sleeps' = [sleeps EXCEPT ![b] = @ + 1]
    /\ waited' = [waited EXCEPT ![b] = @ + w]
    /\ lastWait' = [lastWait EXCEPT ![b] = w]
    /\ UNCHANGED <<result, rejected, gaveUpAt, opResult, justGaveUp>>

ClosureErrorTreatedAsPermanent == FALSE

\* The closure's `?` converts the error of pool.get() into a backoff error:
\* From<E> makes it a transient one, which retry retries.
ClosureErrorIsTransient == TRUE

\* pool.get() times out: the closure returns the error and retry asks
\* next_backoff what to do.
PoolGetTimeout(b) ==
    /\ pc[b] = "blocked"
    /\ ~PoolHasConnection
    /\ timer[b] = 0
    /\ lastErr' = [lastErr EXCEPT ![b] = attempts[b]]
    /\ IF ~ClosureErrorIsTransient \/ elapsed[b] > policy.max_elapsed_time
         THEN /\ GiveUp(b, 0)
              /\ UNCHANGED current_interval
         ELSE \E w \in RandomizedInterval(current_interval[b]) :
                /\ current_interval' =
                     [current_interval EXCEPT ![b] = IncrementCurrentInterval(@)]
                /\ IF NextBackoffGivesUp(elapsed[b], w)
                     THEN GiveUp(b, w)
                     ELSE Backoff(b, w)
    /\ UNCHANGED <<poolVars, held, elapsed, attempts, acquired, released, relSeen,
                   calls, queries, servedBy>>
    /\ UNCHANGED <<startVars, asmVars, clientVars>>

\* The sleep is over: retry runs the closure again.
Wake(b) ==
    /\ pc[b] = "sleeping"
    /\ timer[b] = 0
    /\ pc' = [pc EXCEPT ![b] = "blocked"]
    /\ timer' = [timer EXCEPT ![b] = connTimeout]
    /\ attempts' = [attempts EXCEPT ![b] = @ + 1]
    /\ UNCHANGED <<poolVars, held, current_interval, elapsed, lastErr, result, obsVars,
                   callVars>>
    /\ UNCHANGED <<startVars, asmVars, clientVars>>

\* What a release by another borrower means to borrower b's retry run: it
\* comes while the run is retrying, or after the run gave up and still within
\* its budget (at the very time it gave up, before the budget was over).
SeenBy(b) ==
    IF pc[b] \in {"blocked", "sleeping"} THEN "running"
    ELSE IF pc[b] = "failed" /\ justGaveUp[b] /\ gaveUpAt[b] <= policy.max_elapsed_time
              /\ relSeen[b] = "none"
         THEN "late"
    ELSE relSeen[b]

WaitHoldsPoolLockWhileBlocked(b) == pc[b] = "blocked"

\* What a borrower inside get_pg_pool_connection keeps from the others while
\* it waits: pool.get() waits with the pool's lock released, and the sleep
\* of retry holds nothing.
WaitHoldsPoolLock(b) == FALSE

AfterQueryAcquiresAgain(ok) == IF ok THEN "done" ELSE "idle"

\* What the module does after its query: it reports the result or the error
\* upward; the operation is over either way.
AfterQuery(ok) == "done"

\* The borrowing operation ends, its query having succeeded or failed, and
\* the PgPoolConnection goes out of scope: the connection is back in the pool.
\* Nothing is left of the retry run that acquired it.
Release(b) ==
    /\ pc[b] = "holding"
    /\ \A c \in Borrowers \ {b} : ~WaitHoldsPoolLock(c)
    /\ \E ok \in BOOLEAN :
         /\ opResult' = [opResult EXCEPT ![b] = IF ok THEN "Ok" ELSE "QueryError"]
         /\ pc' = [pc EXCEPT ![b] = AfterQuery(ok)]
    /\ queries' = [queries EXCEPT ![b] = @ + 1]
    /\ lent' = lent - 1
    /\ held' = [held EXCEPT ![b] = FALSE]
    /\ released' = [released EXCEPT ![b] = @ + 1]
    /\ relSeen' = [c \in Borrowers |-> IF c = b THEN "none" ELSE SeenBy(c)]
    /\ attempts' = [attempts EXCEPT ![b] = 0]
    /\ UNCHANGED <<maxSize, connTimeout, policy, current_interval, elapsed, timer,
                   lastErr, result, sleeps, waited, rejected, gaveUpAt, acquired,
                   justGaveUp, lastWait, calls, servedBy>>
    /\ UNCHANGED <<startVars, asmVars, clientVars>>

\* The caller calls get_pg_pool_connection again, for another operation or
\* for the failed one: a new call, with nothing kept of the one before but
\* what the variables of the retry run still hold.
Again(b) ==
    /\ pc[b] \in {"done", "failed"}
    /\ calls[b] < MaxCalls
    /\ pc' = [pc EXCEPT ![b] = "idle"]
    /\ attempts' = [attempts EXCEPT ![b] = 0]
    /\ lastErr' = [lastErr EXCEPT ![b] = 0]
    /\ result' = [result EXCEPT ![b] = "none"]
    /\ sleeps' = [sleeps EXCEPT ![b] = 0]
    /\ waited' = [waited EXCEPT ![b] = 0]
    /\ rejected' = [rejected EXCEPT ![b] = 0]
    /\ gaveUpAt' = [gaveUpAt EXCEPT ![b] = 0]
    /\ acquired' = [acquired EXCEPT ![b] = 0]
    /\ released' = [released EXCEPT ![b] = 0]
    /\ opResult' = [opResult EXCEPT ![b] = "none"]
    /\ relSeen' = [relSeen EXCEPT ![b] = "none"]
    /\ justGaveUp' = [justGaveUp EXCEPT ![b] = FALSE]
    /\ queries' = [queries EXCEPT ![b] = 0]
    /\ UNCHANGED <<poolVars, held, current_interval, elapsed, timer, lastWait, calls,
                   servedBy>>
    /\ UNCHANGED <<startVars, asmVars, clientVars>>

\* ------------------------------------------------------------------- time
Urgent(b) ==
    \/ pc[b] = "blocked" /\ (PoolHasConnection \/ timer[b] = 0)
    \/ pc[b] = "sleeping" /\ timer[b] = 0

Running(b) == pc[b] \in {"blocked", "sleeping"}

\* One unit of time passes for every pool.get() that waits and every sleep.
Tick ==
    /\ \A b \in Borrowers : ~Urgent(b)
    /\ \E b \in Borrowers : Running(b) \/ justGaveUp[b]
    /\ timer' = [b \in Borrowers |-> IF Running(b) THEN timer[b] - 1 ELSE timer[b]]
    /\ elapsed' = [b \in Borrowers |-> IF Running(b) THEN elapsed[b] + 1 ELSE elapsed[b]]
    /\ justGaveUp' = [b \in Borrowers |-> FALSE]
    /\ UNCHANGED <<poolVars, pc, held, current_interval, attempts, lastErr, result,
                   sleeps, waited, rejected, gaveUpAt, acquired, released, opResult,
                   relSeen, callVars>>
    /\ UNCHANGED <<startVars, asmVars, clientVars>>

\* --------------------------------------------------------- new_rpc_client
\* map_err of new_rpc_client: Ok(client) as it is; an error e becomes
\* RpcClientInitError(format!("... with error: {:?}", e)).
RpcClientResult(e) ==
    IF e = 0
        THEN [kind |-> "Ok", text |-> "SuiClient", detail |-> 0]
        ELSE [kind |-> "RpcClientInitError",
              text |-> "Failed to initialize fullnode RPC client with error: ",
              detail |-> e]

AfterBuildRetries(ok) == IF ok THEN "returned" ELSE "rpc"

\* The mapped result of build is the function's result.
AfterBuild(ok) == "returned"

\* The call: info!("Getting new RPC client...").
NewRpcClient(c) ==
    /\ cliPc[c] = "idle"
    /\ cliPc' = [cliPc EXCEPT ![c] = "rpc"]
    /\ UNCHANGED <<poolVars, borrowerVars, startVars, asmVars, cliCalls, cliCause,
                   cliResult>>

\* SuiClientBuilder::default().build(http_url).await.map_err(..): the client,
\* or one of the errors.
RpcClientBuild(c) ==
    /\ cliPc[c] = "rpc"
    /\ cliCalls' = [cliCalls EXCEPT ![c] = @ + 1]
    /\ \E e \in {0} \cup Errors :
         /\ cliCause' = [cliCause EXCEPT ![c] = e]
         /\ cliResult' = [cliResult EXCEPT ![c] = RpcClientResult(e)]
         /\ cliPc' = [cliPc EXCEPT ![c] = AfterBuild(e = 0)]
    /\ UNCHANGED <<poolVars, borrowerVars, startVars, asmVars>>

\* --------------------------------------------------- establish_connection
AfterEstablishRetries(ok) == IF ok THEN "returned" ELSE "establish"

\* unwrap_or_else: the connection is returned; on an error the closure
\* panics and the caller is aborted.
AfterEstablish(ok) == IF ok THEN "returned" ELSE "aborted"

\* unwrap_or_else(|_| panic!("Error connecting to {}", db_url)): the error is
\* dropped, the message names the url.
EstablishResult(e) ==
    IF e = 0
        THEN [kind |-> "Ok", text |-> "PgConnection", detail |-> 0]
        ELSE [kind |-> "panic", text |-> "Error connecting to ", detail |-> 0]

\* The call.
EstablishConnection(c) ==
    /\ cliPc[c] = "idle"
    /\ cliPc' = [cliPc EXCEPT ![c] = "establish"]
    /\ UNCHANGED <<poolVars, borrowerVars, startVars, asmVars, cliCalls, cliCause,
                   cliResult>>

\* PgConnection::establish(&db_url), then unwrap_or_else.
PgConnectionEstablish(c) ==
    /\ cliPc[c] = "establish"
    /\ cliCalls' = [cliCalls EXCEPT ![c] = @ + 1]
    /\ \E e \in {0} \cup Errors :
         /\ cliCause' = [cliCause EXCEPT ![c] = e]
         /\ cliResult' = [cliResult EXCEPT ![c] = EstablishResult(e)]
         /\ cliPc' = [cliPc EXCEPT ![c] = AfterEstablish(e = 0)]
    /\ UNCHANGED <<poolVars, borrowerVars, startVars, asmVars>>

\* ------------------------------------------------- new_pg_connection_pool
NewPoolRetries(ok) == IF ok THEN "built" ELSE "none"

\* What new_pg_connection_pool makes of the one build: Ok(Arc::new(pool)), or
\* the error mapped to PgConnectionPoolInitError and returned by `?`.
NewPoolOutcome(ok) == IF ok THEN "built" ELSE "initError"

\* Pool::builder().build(manager), once; the pool has the default max size.
NewPgConnectionPool ==
    /\ poolState = "none"
    /\ buildCalls' = buildCalls + 1
    /\ \E ok \in BOOLEAN :
         /\ poolState' = NewPoolOutcome(ok)
         /\ maxSize' = IF ok THEN DefaultMaxSize ELSE maxSize
         /\ connTimeout' = IF ok THEN ConnectionTimeout ELSE connTimeout
    /\ UNCHANGED <<lent, policy, borrowerVars, builtin, moduleMethods, asmVars, clientVars>>

\* -------------------------------------------------- JsonRpcServerBuilder
RegisterModuleNoFreeze(st, tbl, ms) ==
    IF tbl \cap ms # {}
        THEN [ok |-> FALSE, table |-> tbl]
        ELSE [ok |-> TRUE, table |-> tbl \cup ms]

\* register_module: the module's methods join the dispatch table, unless the
\* builder has been started or a name is already registered; then it fails
\* and the table is as it was.
RegisterModule(st, tbl, ms) ==
    IF st # "Built" \/ tbl \cap ms # {}
        THEN [ok |-> FALSE, table |-> tbl]
        ELSE [ok |-> TRUE, table |-> tbl \cup ms]

\* The methods a client can call: those of a serving server.
Reachable(r) == IF state[r] = "Serving" THEN table[r] ELSE {}

\* -------------------------------------------------- build_json_rpc_server
AfterNewSkipsRegister(ok) == IF ok THEN "start" ELSE "returned"

AfterNewIgnoresError(ok) == "register"

\* `?` after JsonRpcServerBuilder::new: an error is returned, nothing is
\* registered; otherwise the module is built and registered next.
AfterNew(ok) == IF ok THEN "register" ELSE "returned"

AfterRegisterIgnoresError(ok) == "start"

\* `?` after register_module: an error is returned, start is not reached.
AfterRegister(ok) == IF ok THEN "start" ELSE "returned"

AfterStartRetries(ok) == IF ok THEN "returned" ELSE "start"

AfterStartRegistersAgain(ok) == IF ok THEN "register" ELSE "returned"

\* start's result is the function's result: no second call.
AfterStart(ok) == "returned"

BindAddressPerRun(r) == DefaultSocketAddr + r

\* The address a run binds: default_socket_addr, whatever the run.
BindAddress(r) == DefaultSocketAddr

\* The call, with the pool new_pg_connection_pool returned.
BuildCall(r) ==
    /\ asmPc[r] = "idle"
    /\ poolState = "built"
    /\ asmPc' = [asmPc EXCEPT ![r] = "new"]
    /\ UNCHANGED <<poolVars, borrowerVars, startVars, state, table, asmResult, errStep,
                   newCalls, regCalls, startCalls, portOwner, lateRejected, modulePool,
                   clientVars>>

\* The function returns JsonRpcServerError for the step that failed.
Fail(r, step) ==
    /\ asmResult' = [asmResult EXCEPT ![r] = "JsonRpcServerError"]
    /\ errStep' = [errStep EXCEPT ![r] = step]
    /\ state' = [state EXCEPT ![r] = "Failed"]

\* JsonRpcServerBuilder::new(FAKE_PKG_VERSION, prometheus_registry)
BuilderNew(r) ==
    /\ asmPc[r] = "new"
    /\ newCalls' = [newCalls EXCEPT ![r] = @ + 1]
    /\ \E ok \in BOOLEAN :
         IF ok
           THEN /\ state' = [state EXCEPT ![r] = "Built"]
                /\ table' = [table EXCEPT ![r] = builtin]
                /\ asmPc' = [asmPc EXCEPT ![r] = AfterNew(ok)]
                /\ UNCHANGED <<asmResult, errStep>>
           ELSE /\ Fail(r, "new")
                /\ asmPc' = [asmPc EXCEPT ![r] = AfterNew(ok)]
                /\ UNCHANGED table
    /\ UNCHANGED <<poolVars, borrowerVars, startVars, regCalls, startCalls, portOwner,
                   lateRejected, modulePool, clientVars>>

\* builder.register_module(CheckpointApiImpl::new(pg_connection_pool))
BuilderRegister(r) ==
    /\ asmPc[r] = "register"
    /\ modulePool' = [modulePool EXCEPT ![r] = poolState]
    /\ regCalls' = [regCalls EXCEPT ![r] = @ + 1]
    /\ LET res == RegisterModule(state[r], table[r], moduleMethods) IN
         /\ table' = [table EXCEPT ![r] = res.table]
         /\ asmPc' = [asmPc EXCEPT ![r] = AfterRegister(res.ok)]
         /\ IF res.ok
              THEN UNCHANGED <<asmResult, errStep, state>>
              ELSE Fail(r, "register")
    /\ UNCHANGED <<poolVars, borrowerVars, startVars, newCalls, startCalls, portOwner,
                   lateRejected, clientVars>>

\* builder.start(default_socket_addr): binding fails when the address is in
\* use, and may fail otherwise.
BuilderStart(r) ==
    /\ asmPc[r] = "start"
    /\ startCalls' = [startCalls EXCEPT ![r] = @ + 1]
    /\ \E bound \in BOOLEAN :
         LET default == BindAddress(r) = DefaultSocketAddr
             ok == bound /\ (default => portOwner = 0)
         IN
         /\ asmPc' = [asmPc EXCEPT ![r] = AfterStart(ok)]
         /\ IF ok
              THEN /\ state' = [state EXCEPT ![r] = "Serving"]
                   /\ asmResult' = [asmResult EXCEPT ![r] = "Ok"]
                   /\ portOwner' = IF default THEN r ELSE portOwner
                   /\ UNCHANGED errStep
              ELSE /\ Fail(r, "start")
                   /\ UNCHANGED portOwner
    /\ UNCHANGED <<poolVars, borrowerVars, startVars, table, newCalls, regCalls,
                   lateRejected, modulePool, clientVars>>

\* A caller tries register_module on a builder that has been started.
RegisterAfterStart(r) ==
    /\ state[r] = "Serving"
    /\ lateRejected[r] < MaxLateCalls
    /\ \E ms \in (SUBSET Methods) \ {{}} :
         LET res == RegisterModule(state[r], table[r], ms) IN
         /\ table' = [table EXCEPT ![r] = res.table]
         /\ lateRejected' = [lateRejected EXCEPT ![r] = IF res.ok THEN @ ELSE @ + 1]
    /\ UNCHANGED <<poolVars, borrowerVars, startVars, asmPc, state, asmResult, errStep,
                   newCalls, regCalls, startCalls, portOwner, modulePool, clientVars>>

\* The requests a server dispatched, each to a handler of its own.
Dispatched == {b \in Borrowers : servedBy[b] # 0}

\* The server of run r, serving, dispatches a request for a method of the
\* module: the handler is a borrowing operation on the shared pool.
Dispatch(r) ==
    /\ state[r] = "Serving"
    /\ table[r] \cap moduleMethods # {}
    /\ Cardinality(Dispatched) < Min(MaxRequests, NumBorrowers)
    /\ servedBy' = [servedBy EXCEPT ![Cardinality(Dispatched) + 1] = r]
    /\ UNCHANGED <<poolVars, pc, held, retryVars, obsVars, lastWait, calls, queries,
                   startVars, asmVars, clientVars>>

Next ==
    \/ NewPgConnectionPool
    \/ \E r \in Runs : BuildCall(r)
    \/ \E r \in Runs : BuilderNew(r)
    \/ \E r \in Runs : BuilderRegister(r)
    \/ \E r \in Runs : BuilderStart(r)
    \/ \E r \in Runs : RegisterAfterStart(r)
    \/ \E r \in Runs : Dispatch(r)
    \/ \E b \in Dispatched : Acquire(b)
    \/ \E b \in Dispatched : PoolGetOk(b)
    \/ \E b \in Dispatched : Release(b)

Spec == Init /\ [][Next]_vars

\* The callers of the two constructors, each call on its own.
ClientNext ==
    \/ \E c \in Callers : NewRpcClient(c)
    \/ \E c \in Callers : RpcClientBuild(c)
    \/ \E c \in Callers : EstablishConnection(c)
    \/ \E c \in Callers : PgConnectionEstablish(c)

ClientSpec == Init /\ [][ClientNext]_vars

PoolNext ==
    \/ \E b \in Borrowers : Acquire(b)
    \/ \E b \in Borrowers : PoolGetOk(b)
    \/ \E b \in Borrowers : PoolGetTimeout(b)
    \/ \E b \in Borrowers : Wake(b)
    \/ \E b \in Borrowers : Release(b)
    \/ Tick

PoolSpec == PoolInit /\ [][PoolNext]_vars

\* Two callers of one pool of one connection, each calling again and again.
RetryBorrowers == {b \in Borrowers : b <= 2}

RetryNext ==
    \/ \E b \in RetryBorrowers : Acquire(b)
    \/ \E b \in RetryBorrowers : PoolGetOk(b)
    \/ \E b \in RetryBorrowers : PoolGetTimeout(b)
    \/ \E b \in RetryBorrowers : Wake(b)
    \/ \E b \in RetryBorrowers : Release(b)
    \/ \E b \in RetryBorrowers : Again(b)
    \/ Tick

RetrySpec == RetryInit /\ [][RetryNext]_vars

\* The callers of the pool together with an operation that needs no
\* connection, a call of new_rpc_client or establish_connection.
MixedCallers == {c \in Callers : c <= 1}

MixedNext ==
    \/ RetryNext
    \/ \E c \in MixedCallers : NewRpcClient(c)
    \/ \E c \in MixedCallers : RpcClientBuild(c)
    \/ \E c \in MixedCallers : EstablishConnection(c)
    \/ \E c \in MixedCallers : PgConnectionEstablish(c)

MixedSpec == RetryInit /\ [][MixedNext]_vars

\* The borrowers of a pool retry, time passes, and a connection held may be
\* held forever.
Progress ==
    \/ Tick
    \/ \E b \in Borrowers : PoolGetOk(b) \/ PoolGetTimeout(b) \/ Wake(b)

FairPoolSpec == PoolSpec /\ WF_vars(Progress)

\* ----------------------------------------------------------------- claims
Budget == policy.max_elapsed_time

Failed(b) == result[b] = "PgPoolConnectionError"

Holders == {b \in Borrowers : held[b]}

\* C1: the connections lent out, as the pool counts them and as the
\* borrowers hold them, never exceed the pool's maximum size, with more
\* borrowers than connections.
C1_LentNeverExceedsMax ==
    /\ lent <= maxSize
    /\ Cardinality(Holders) <= maxSize
    /\ NumBorrowers > maxSize

\* Every connection is lent and one more borrower is retrying.
C1_Witness ==
    /\ maxSize = MaxPoolSize
    /\ lent = maxSize
    /\ \E b \in Borrowers : pc[b] = "sleeping" /\ attempts[b] >= 1

\* C2: every connection handed out is given back exactly once before the
\* borrowing operation completes, on success and on failure; with every
\* operation complete nothing is lent.
C2_NoLeak ==
    /\ \A b \in Borrowers :
         /\ acquired[b] <= 1
         /\ acquired[b] = (IF result[b] = "Ok" THEN 1 ELSE 0)
         /\ released[b] <= acquired[b]
         /\ held[b] <=> (acquired[b] = released[b] + 1)
         /\ pc[b] \in {"done", "failed"} => released[b] = acquired[b]
         /\ opResult[b] \in {"Ok", "QueryError"} => released[b] = 1
    /\ lent = Cardinality(Holders)
    /\ (\A b \in Borrowers : pc[b] \in {"idle", "done", "failed"}) => lent = 0

\* All operations are over: one succeeded, one failed in its query, and
\* nothing is lent.
C2_Witness ==
    /\ \A b \in Borrowers : pc[b] \in {"done", "failed"}
    /\ \E b, c \in Borrowers : opResult[b] = "Ok" /\ opResult[c] = "QueryError"
    /\ lent = 0

\* A pool of one connection and at most two borrowers that called.
TwoAcquisitions ==
    /\ maxSize = 1
    /\ Cardinality({b \in Borrowers : pc[b] # "idle"}) <= 2

\* C3 as stated: with a pool of one and two acquisitions, the two never
\* hold together, and an acquisition never fails when the other's
\* connection was released within its retry budget.
C3_Original ==
    TwoAcquisitions =>
        /\ Cardinality(Holders) <= 1
        /\ \A b \in Borrowers : Failed(b) => relSeen[b] = "none"

\* C3 amended: with a pool of one and two acquisitions, the two never hold
\* together; an acquisition never fails when the other's connection was
\* released while it was still retrying, and it stops retrying only at a
\* failed attempt whose end, or whose end plus the next wait, is past the
\* budget.
C3_Amended ==
    TwoAcquisitions =>
        /\ Cardinality(Holders) <= 1
        /\ \A b \in Borrowers :
             Failed(b) =>
                /\ relSeen[b] # "running"
                /\ \/ gaveUpAt[b] > Budget
                   \/ gaveUpAt[b] + rejected[b] > Budget

\* The second acquisition waited, retried after the release and holds the
\* connection.
C3_Witness ==
    /\ TwoAcquisitions
    /\ \E b \in Borrowers :
         /\ pc[b] = "holding"
         /\ relSeen[b] = "running"
         /\ attempts[b] >= 2

\* The waits next_backoff could have answered when the retry run gave up.
NextWaits(b) ==
    IF rejected[b] > 0 THEN {rejected[b]} ELSE RandomizedInterval(current_interval[b])

\* C4 as stated: when acquire gives up, its attempts are the largest number
\* whose waits in between sum to at most the budget: one more wait would
\* exceed it.
C4_Original ==
    \A b \in Borrowers :
        Failed(b) =>
            /\ attempts[b] = sleeps[b] + 1
            /\ waited[b] <= Budget
            /\ \A w \in NextWaits(b) : waited[b] + w > Budget

\* C4 amended: the budget is on elapsed time, the waits slept and the time
\* every pool.get() blocked: acquire gives up at the first failed attempt
\* whose end, or whose end plus the next wait, is past the budget; it made
\* one attempt more than it slept waits, and every wait it slept ended
\* within the budget.
C4_Amended ==
    \A b \in Borrowers :
        /\ Failed(b) =>
             /\ attempts[b] = sleeps[b] + 1
             /\ gaveUpAt[b] = waited[b] + attempts[b] * connTimeout
             /\ \/ gaveUpAt[b] > Budget
                \/ gaveUpAt[b] + rejected[b] > Budget
             /\ waited[b] + sleeps[b] * connTimeout <= Budget
        /\ pc[b] = "sleeping" => elapsed[b] + timer[b] <= Budget

\* An acquisition gave up after more than one attempt.
C4_Witness ==
    \E b \in Borrowers : Failed(b) /\ attempts[b] >= 2 /\ waited[b] >= 1

C6_Original ==
    \A b \in Borrowers : Failed(b) => gaveUpAt[b] >= Budget

\* C6 amended: acquire returns the error only at a failed attempt whose
\* end, or whose end plus the next wait, is past the budget; every failed
\* attempt before that is followed by a wait and another attempt; after the
\* error no attempt is made.
C6_Amended ==
    /\ [](\A b \in Borrowers :
            /\ Failed(b) =>
                 /\ \/ gaveUpAt[b] > Budget
                    \/ gaveUpAt[b] + rejected[b] > Budget
                 /\ lastErr[b] = attempts[b]
            /\ pc[b] = "sleeping" => attempts[b] = sleeps[b] /\ lastErr[b] = attempts[b]
            /\ pc[b] = "blocked" => attempts[b] = sleeps[b] + 1)
    /\ [][\A b \in Borrowers :
            Failed(b) => pc'[b] = "failed" /\ attempts'[b] = attempts[b]]_vars

\* A failure was absorbed, and the error came with budget left.
C6_Witness ==
    \E b \in Borrowers : Failed(b) /\ sleeps[b] >= 1 /\ gaveUpAt[b] <= Budget

\* C7: new_pg_connection_pool builds once: a failed build is the error
\* PgConnectionPoolInitError at once, with no second build and no pool.
C7_SingleBuildAttempt ==
    /\ buildCalls <= 1
    /\ buildCalls = 1 <=> poolState # "none"
    /\ poolState = "initError" =>
         /\ maxSize = 0
         /\ connTimeout = 0
         /\ \A r \in Runs : asmPc[r] = "idle"

\* The build failed.
C7_Witness == poolState = "initError" /\ buildCalls = 1

\* C8: a module with a name already registered is refused with
\* JsonRpcServerError, the table is as it was, start is not called and no
\* method is reachable.
C8_CollisionFailsClosed ==
    \A r \in Runs :
        /\ errStep[r] = "register" =>
             /\ builtin \cap moduleMethods # {}
             /\ asmResult[r] = "JsonRpcServerError"
             /\ table[r] = builtin
             /\ startCalls[r] = 0
             /\ state[r] # "Serving"
             /\ Reachable(r) = {}
        /\ (regCalls[r] = 1 /\ builtin \cap moduleMethods # {}) => errStep[r] = "register"

\* A registration collided and the function returned.
C8_Witness ==
    \E r \in Runs :
        errStep[r] = "register" /\ asmPc[r] = "returned" /\ moduleMethods # builtin

\* C9: once start has succeeded the dispatch table never changes and the
\* server stays serving: a later register_module is rejected.
C9_FrozenAfterStart ==
    [][\A r \in Runs :
         state[r] = "Serving" => table'[r] = table[r] /\ state'[r] = "Serving"]_vars

\* A register_module after start was rejected.
C9_Witness ==
    \E r \in Runs :
        /\ state[r] = "Serving"
        /\ lateRejected[r] >= 1
        /\ table[r] = builtin \cup moduleMethods

Forward(a, b) ==
    \/ a = b
    \/ a = "Uninitialized" /\ b \in {"Built", "Failed"}
    \/ a = "Built" /\ b \in {"Serving", "Failed"}

\* C10: the assembler only moves forward, Uninitialized, Built, Serving, a
\* failure being terminal; start is called at most once, and its failure is
\* the function's JsonRpcServerError.
C10_ForwardOnly ==
    [][\A r \in Runs :
         /\ Forward(state[r], state'[r])
         /\ startCalls'[r] <= 1
         /\ errStep'[r] = "start" =>
              /\ state'[r] = "Failed"
              /\ asmResult'[r] = "JsonRpcServerError"
              /\ asmPc'[r] = "returned"]_vars

\* start failed and the function returned.
C10_Witness ==
    \E r \in Runs : errStep[r] = "start" /\ state[r] = "Failed" /\ startCalls[r] = 1

\* The steps of build_json_rpc_server that run r made, each at most once.
Steps(r) == <<newCalls[r], regCalls[r], startCalls[r]>>

\* C11: the pool is built before any run begins; the module is built with
\* the pool and registered after the builder was made and before start;
\* a server serves, and a request is dispatched, only after new,
\* register_module and start each ran once, in that order, with no error.
C11_StartupOrdering ==
    /\ \A r \in Runs :
         /\ asmPc[r] # "idle" => poolState = "built"
         /\ Steps(r) \in {<<0, 0, 0>>, <<1, 0, 0>>, <<1, 1, 0>>, <<1, 1, 1>>}
         /\ modulePool[r] # "none" <=> regCalls[r] = 1
         /\ modulePool[r] \in {"none", "built"}
         /\ regCalls[r] = 1 => errStep[r] # "new"
         /\ startCalls[r] = 1 => errStep[r] \notin {"new", "register"}
         /\ state[r] = "Serving" =>
              /\ Steps(r) = <<1, 1, 1>>
              /\ errStep[r] = "none"
              /\ moduleMethods \subseteq table[r]
    /\ \A b \in Dispatched :
         /\ state[servedBy[b]] = "Serving"
         /\ Steps(servedBy[b]) = <<1, 1, 1>>

\* A request was served to its end by a started server.
C11_Witness ==
    \E b \in Dispatched : pc[b] = "done" /\ state[servedBy[b]] = "Serving"

\* The calls of new_rpc_client that ended.
RpcReturned(c) == cliResult[c].text \in {"SuiClient"} \/ cliResult[c].kind = "RpcClientInitError"

\* C12: new_rpc_client builds once: it returns the client when the build
\* succeeds, RpcClientInitError with the error in its message when it
\* fails, and having returned it builds no more.
C12_SingleAttempt ==
    \A c \in Callers :
        /\ cliPc[c] = "rpc" => cliCalls[c] = 0 /\ cliResult[c] = NoResult
        /\ RpcReturned(c) =>
             /\ cliPc[c] = "returned"
             /\ cliCalls[c] = 1
             /\ cliCause[c] = 0 =>
                  cliResult[c].kind = "Ok" /\ cliResult[c].text = "SuiClient"
             /\ cliCause[c] # 0 =>
                  /\ cliResult[c].kind = "RpcClientInitError"
                  /\ cliResult[c].detail = cliCause[c]

\* One call returned the client, one the error of each kind.
C12_Witness ==
    /\ \E c \in Callers : cliResult[c].kind = "Ok" /\ cliResult[c].text = "SuiClient"
    /\ \E c \in Callers :
         /\ cliResult[c].kind = "RpcClientInitError"
         /\ cliResult[c].detail = NumErrors
         /\ cliCalls[c] = 1

\* The retry run of b sleeps after a failed attempt.
BackoffStep(b) == pc[b] = "blocked" /\ pc'[b] = "sleeping"

\* C13 as stated: the first wait is the initial interval and every later
\* wait is the wait before it multiplied, up to the ceiling, so never
\* shorter than the wait before it.
C13_Original ==
    [][\A b \in Borrowers :
         BackoffStep(b) =>
            IF sleeps[b] = 0
                THEN lastWait'[b] = policy.initial_interval
                ELSE /\ lastWait'[b] =
                          Min((lastWait[b] * policy.mult_num) \div policy.mult_den,
                              policy.max_interval)
                     /\ lastWait'[b] >= lastWait[b]]_vars

\* The interval after k failed attempts: the initial interval multiplied k
\* times, each time up to the ceiling.
RECURSIVE Schedule(_)
Schedule(k) ==
    IF k = 0 THEN policy.initial_interval
    ELSE Min((Schedule(k - 1) * policy.mult_num) \div policy.mult_den,
             policy.max_interval)

\* C13 amended: the interval of the retry run follows the schedule, the
\* initial interval at the first failed attempt and multiplied up to the
\* ceiling after every failed attempt, so it never decreases; the wait
\* slept after a failed attempt is drawn within half the interval around it.
C13_Amended ==
    [][\A b \in Borrowers :
         BackoffStep(b) =>
            /\ current_interval[b] = Schedule(sleeps[b])
            /\ current_interval'[b] = Schedule(sleeps[b] + 1)
            /\ current_interval'[b] >= current_interval[b]
            /\ current_interval'[b] <= policy.max_interval
            /\ 2 * lastWait'[b] >= current_interval[b]
            /\ 2 * lastWait'[b] <= 3 * current_interval[b]
            /\ timer'[b] = lastWait'[b]]_vars

\* A retry run sleeps its second wait, shorter than its first, the interval
\* at its ceiling.
C13_Witness ==
    \E b \in Borrowers :
        /\ pc[b] = "sleeping"
        /\ sleeps[b] = 2
        /\ lastWait[b] < waited[b] - lastWait[b]
        /\ current_interval[b] = policy.max_interval

C15_NoWaitList ==
    /\ [](/\ lent = Cardinality(Holders)
          /\ \A b \in Borrowers :
               /\ Running(b) => ~held[b]
               /\ (pc[b] = "blocked" /\ lent < maxSize) => ENABLED PoolGetOk(b)
               /\ pc[b] = "idle" => ENABLED Acquire(b))
    /\ [][\A b \in Borrowers :
            /\ (pc[b] = "blocked" /\ pc'[b] = "holding") =>
                 lent < maxSize /\ lent' = lent + 1
            /\ (pc[b] = "blocked" /\ pc'[b] \in {"sleeping", "failed"}) =>
                 lent = maxSize /\ lent' = lent]_vars

\* With a pool of one, a borrower that called after a release holds the
\* connection, while a borrower that was retrying at that release, and
\* has retried since, still waits.
C15_Witness ==
    /\ maxSize = 1
    /\ \E b, c \in Borrowers :
         /\ pc[b] = "sleeping"
         /\ sleeps[b] >= 1
         /\ relSeen[b] = "running"
         /\ pc[c] = "holding"
         /\ relSeen[c] = "none"
         /\ attempts[c] = 1

\* C16: every call of acquire starts with the initial interval and no
\* elapsed time, whatever the intervals and times of the caller's earlier
\* calls and of the calls under way; the policy itself never changes, and
\* no step of one call touches the interval of another.
C16_PolicyStateless ==
    /\ [](\A b \in Borrowers :
            (pc[b] = "blocked" /\ attempts[b] = 1) =>
                /\ current_interval[b] = policy.initial_interval
                /\ elapsed[b] + timer[b] = connTimeout
                /\ sleeps[b] = 0 /\ waited[b] = 0)
    /\ [][/\ policy' = policy
          /\ \A b \in Borrowers :
               /\ (pc[b] = "idle" /\ pc'[b] = "blocked") =>
                    /\ current_interval'[b] = policy.initial_interval
                    /\ elapsed'[b] = 0
               /\ pc'[b] = pc[b] => current_interval'[b] = current_interval[b]]_vars

\* A caller's second call begins, beside a call whose interval has grown.
C16_Witness ==
    \E b, c \in Borrowers :
        /\ calls[b] = 2
        /\ pc[b] = "blocked"
        /\ attempts[b] = 1
        /\ current_interval[b] = policy.initial_interval
        /\ pc[c] = "sleeping"
        /\ current_interval[c] > policy.initial_interval

\* C17: a borrowing operation calls acquire once and runs its query at most
\* once, and only with the connection acquire returned; a failed query
\* ends the operation with the error, the connection given back, and
\* nothing is run or acquired after it.
C17_QueryAtMostOnce ==
    /\ [](\A b \in Borrowers :
            /\ calls[b] <= 1
            /\ queries[b] <= 1
            /\ queries[b] = 1 <=> opResult[b] \in {"Ok", "QueryError"}
            /\ queries[b] = 1 => result[b] = "Ok" /\ acquired[b] = 1
            /\ opResult[b] = "QueryError" =>
                 /\ pc[b] = "done"
                 /\ released[b] = 1
                 /\ ~held[b])
    /\ [][\A b \in Borrowers :
            opResult[b] = "QueryError" =>
                /\ pc'[b] = "done"
                /\ opResult'[b] = "QueryError"
                /\ queries'[b] = queries[b]
                /\ calls'[b] = calls[b]]_vars

\* With a pool of one, a query failed, its connection went back, and a
\* borrower that was retrying through the release holds it now.
C17_Witness ==
    /\ maxSize = 1
    /\ \E b, c \in Borrowers :
         /\ opResult[b] = "QueryError"
         /\ queries[b] = 1
         /\ pc[c] = "holding"
         /\ relSeen[c] = "running"

\* The calls of establish_connection that ended.
EstablishEnded(c) == cliResult[c].text = "PgConnection" \/ cliResult[c].kind = "panic"

\* C18: establish_connection connects once: it returns the connection, or
\* it panics and its caller is aborted; it returns no error value, and it
\* connects no second time.
C18_EstablishOrPanic ==
    \A c \in Callers :
        /\ cliPc[c] = "establish" => cliCalls[c] = 0 /\ cliResult[c] = NoResult
        /\ cliPc[c] = "aborted" => cliResult[c].kind = "panic"
        /\ EstablishEnded(c) =>
             /\ cliCalls[c] = 1
             /\ cliResult[c].kind \in {"Ok", "panic"}
             /\ cliResult[c].kind = "Ok" <=> cliCause[c] = 0
             /\ cliResult[c].kind = "Ok" <=> cliPc[c] = "returned"
             /\ cliResult[c].kind = "panic" <=> cliPc[c] = "aborted"

\* One call returned a connection and one panicked.
C18_Witness ==
    /\ \E c \in Callers : cliResult[c].text = "PgConnection" /\ cliPc[c] = "returned"
    /\ \E c \in Callers :
         cliPc[c] = "aborted" /\ cliCause[c] = NumErrors /\ cliCalls[c] = 1

Serving == {r \in Runs : state[r] = "Serving"}

\* C19: every run binds 127.0.0.1:3030, so at most one server serves at a
\* time, the one that owns the address; the start of another run while it
\* serves fails with JsonRpcServerError and leaves the server, its
\* dispatch table and the pool as they were.
C19_OneServerOnFixedPort ==
    /\ [](/\ Cardinality(Serving) <= 1
          /\ \A r \in Runs : state[r] = "Serving" <=> portOwner = r)
    /\ [][\A r, q \in Runs :
            (state[r] = "Serving" /\ q # r /\ startCalls'[q] # startCalls[q]) =>
                /\ state'[q] = "Failed"
                /\ asmResult'[q] = "JsonRpcServerError"
                /\ errStep'[q] = "start"
                /\ state'[r] = "Serving"
                /\ table'[r] = table[r]
                /\ portOwner' = r
                /\ poolVars' = poolVars
                /\ held' = held]_vars

\* A run failed at start beside a serving server that has served a request.
C19_Witness ==
    \E r, q \in Runs :
        /\ state[r] = "Serving"
        /\ errStep[q] = "start"
        /\ state[q] = "Failed"
        /\ \E b \in Dispatched : servedBy[b] = r /\ pc[b] = "done"

\* C20: no step of build_json_rpc_server changes what is lent or who holds
\* a connection; the step that fails is the last step of the run, which
\* returns JsonRpcServerError.
C20_AssemblyDoesNotBorrow ==
    /\ [](\A r \in Runs :
            /\ errStep[r] # "none" =>
                 /\ asmPc[r] = "returned"
                 /\ asmResult[r] = "JsonRpcServerError"
            /\ errStep[r] = "new" => Steps(r) = <<1, 0, 0>>
            /\ errStep[r] = "register" => Steps(r) = <<1, 1, 0>>
            /\ errStep[r] = "start" => Steps(r) = <<1, 1, 1>>)
    /\ [][\A r \in Runs :
            asmPc'[r] # asmPc[r] =>
                /\ lent' = lent
                /\ held' = held
                /\ pc' = pc
                /\ maxSize' = maxSize]_vars

\* A run failed at its first step while a connection was lent.
C20_Witness ==
    \E r \in Runs :
        /\ errStep[r] = "new"
        /\ asmPc[r] = "returned"
        /\ lent >= 1
        /\ \E b \in Dispatched : pc[b] = "holding"

====
